---- MODULE Spec2Model ----
(***************************************************************************)
(* Model of the two orchestration scripts of the repository:               *)
(*   multicloud_git.py                 sync_notebooks_and_permissions      *)
(*   user_creation_adding_notebooks.py transfer_users_and_notebooks        *)
(* The remote systems (workspace API, source host) are the environment:    *)
(* every HTTP call draws its outcome and its response body from a small    *)
(* set.  `log` records every call handed to the requests library, in       *)
(* order.                                                                   *)
(***************************************************************************)
EXTENDS Integers, Sequences, FiniteSets, TLC

VARIABLES
    prog,               \* which script runs: "sync" or "transfer"
    pc,                 \* position in the orchestrator
    WORKSPACE_CONFIG,   \* the module-level configuration table
    source_name,        \* first CLI input  (source_cloud / source_workspace)
    target_name,        \* second CLI input (target_cloud / target_workspace)
    cluster_id,         \* sync only: the optional cluster id input
    source_config,      \* local of the orchestrator
    target_config,      \* local of the orchestrator
    log,                \* sequence of HTTP calls handed to requests
    notebook_content,   \* sync: text fetched from the source host
    source_notebook_path,
    target_notebook_path,
    source_notebook_id,
    target_notebook_id,
    acl_response,       \* sync: the access_control_list the permissions GET returned
    permissions_call,   \* sync: inside get_permissions, the status it got and how its GET ended
    fetched_permissions,\* sync: what get_permissions returned
    source_permissions, \* sync: the resolved permission mapping
    grants,             \* sync: the grant_permissions invocations, in order
    users,              \* transfer: the user list returned by get_users
    created,            \* transfer: payloads handed to create_user, in order
    user_name_map,      \* transfer: local user_name_map
    tree,               \* transfer: the source tree the listing walked
    failed_listings,    \* transfer: directories whose listing call failed
    notebook_paths,     \* transfer: list returned by list_notebooks
    directory_paths,    \* transfer: set returned by list_notebooks
    exported,           \* transfer: per processed notebook, what export returned
    probe,              \* a single call of a leaf operation: its arguments and result
    i                   \* loop index of the current for loop

vars == << prog, pc, WORKSPACE_CONFIG, source_name, target_name, cluster_id,
           source_config, target_config, log, notebook_content,
           source_notebook_path, target_notebook_path, source_notebook_id,
           target_notebook_id, acl_response, permissions_call, fetched_permissions,
           source_permissions, grants, users, created, user_name_map, tree,
           failed_listings, notebook_paths, directory_paths, exported, probe, i >>

(***************************************************************************)
(* Bounds of the model.                                                    *)
(***************************************************************************)
MaxAcl == 2         \* entries in an access_control_list response
MaxUsers == 2       \* user records in a SCIM listing
MaxDirs == 3        \* directories in a source tree
MaxNotebooks == 2   \* notebooks in a source tree
MaxDepth == 3       \* nesting depth of a source tree
MaxFailures == 1    \* listing calls that fail during one walk
MaxUnset == 1       \* entries of the configuration table with an unset or empty field

(***************************************************************************)
(* Python values.  A value is a record tagged with its type, so that the   *)
(* truth test the orchestrators apply (`if not x`) is modelled as Python   *)
(* applies it.                                                             *)
(***************************************************************************)
None == [t |-> "None"]
Str(s) == [t |-> "str", v |-> s]        \* a str held as a TLA+ string
Text(s) == [t |-> "text", v |-> s]      \* a str held as a sequence of code points
PyInt(n) == [t |-> "int", v |-> n]
Dict(d) == [t |-> "dict", v |-> d]      \* d: a function on its keys
ODict(s) == [t |-> "odict", v |-> s]    \* s: sequence of <<key, value>>, insertion order
PyList(s) == [t |-> "list", v |-> s]

Truthy(x) ==
    CASE x.t = "None" -> FALSE
      [] x.t = "str" -> x.v # ""
      [] x.t = "text" -> Len(x.v) > 0
      [] x.t = "int" -> x.v # 0
      [] x.t = "dict" -> DOMAIN x.v # {}
      [] x.t = "odict" -> Len(x.v) > 0
      [] x.t = "list" -> Len(x.v) > 0

\* dict.get(key) with the default None
Get(d, key) == IF key \in DOMAIN d THEN d[key] ELSE None

\* Sequences over S of length at most n
SeqsUpTo(S, n) == UNION {[1..k -> S] : k \in 0..n}

(***************************************************************************)
(* Content encoding.  A text is a sequence of code points, a byte string a *)
(* sequence of 0..255, a base64 string a sequence of symbols: 0..63 the    *)
(* alphabet, 64 the padding '=', 65 a line break (not in the alphabet).    *)
(***************************************************************************)
B64Pad == 64
B64Newline == 65

\* str.encode("utf-8"), for code points below 2048
RECURSIVE Utf8Encode(_)
Utf8Encode(s) ==
    IF s = << >> THEN << >>
    ELSE (IF Head(s) < 128 THEN << Head(s) >>
          ELSE << 192 + (Head(s) \div 64), 128 + (Head(s) % 64) >>)
         \o Utf8Encode(Tail(s))

\* bytes.decode("utf-8"), for well-formed input of one- and two-byte forms
RECURSIVE Utf8Decode(_)
Utf8Decode(b) ==
    IF b = << >> THEN << >>
    ELSE IF Head(b) < 128 THEN << Head(b) >> \o Utf8Decode(Tail(b))
    ELSE << (Head(b) - 192) * 64 + (b[2] - 128) >> \o Utf8Decode(Tail(Tail(b)))

\* base64.b64encode
RECURSIVE B64Encode(_)
B64Encode(b) ==
    IF Len(b) = 0 THEN << >>
    ELSE IF Len(b) = 1 THEN
        << b[1] \div 4, (b[1] % 4) * 16, B64Pad, B64Pad >>
    ELSE IF Len(b) = 2 THEN
        << b[1] \div 4, (b[1] % 4) * 16 + (b[2] \div 16), (b[2] % 16) * 4, B64Pad >>
    ELSE << b[1] \div 4, (b[1] % 4) * 16 + (b[2] \div 16),
            (b[2] % 16) * 4 + (b[3] \div 64), b[3] % 64 >>
         \o B64Encode(SubSeq(b, 4, Len(b)))

RECURSIVE B64DecodeGroups(_)
B64DecodeGroups(s) ==
    IF Len(s) < 4 THEN << >>
    ELSE (IF s[3] = B64Pad THEN << s[1] * 4 + (s[2] \div 16) >>
          ELSE IF s[4] = B64Pad THEN
              << s[1] * 4 + (s[2] \div 16), (s[2] % 16) * 16 + (s[3] \div 4) >>
          ELSE << s[1] * 4 + (s[2] \div 16), (s[2] % 16) * 16 + (s[3] \div 4),
                  (s[3] % 4) * 64 + s[4] >>)
         \o B64DecodeGroups(SubSeq(s, 5, Len(s)))

IsB64Symbol(c) == c <= B64Pad

\* base64.b64decode without validate: characters outside the alphabet are dropped
B64Decode(s) == B64DecodeGroups(SelectSeq(s, IsB64Symbol))

\* Texts a notebook may hold: "" and "é" (two bytes in UTF-8, padded in base64)
Texts == { << >>, << 233 >> }

\* A canonical base64 string with a line break after its first group, as the
\* source host wraps long content
Wrapped(s) == IF Len(s) < 4 THEN s ELSE SubSeq(s, 1, 4) \o << B64Newline >> \o SubSeq(s, 5, Len(s))

\* What a 2xx response may carry in its "content" field
WireContents ==
    { Text(B64Encode(Utf8Encode(x))) : x \in Texts }
    \cup { Text(Wrapped(B64Encode(Utf8Encode(x)))) : x \in Texts }

(***************************************************************************)
(* Configuration.                                                          *)
(***************************************************************************)
TableNames(p) == IF p = "sync" THEN {"AWS", "AZURE", "GCP"} ELSE {"STAGING", "PREPROD"}

\* Names the user may type at the two prompts
SourceInputs(p) == IF p = "sync" THEN {"aws", "ORACLE"} ELSE {"staging", "DEV"}
TargetInputs(p) == IF p = "sync" THEN {"AZURE", "ORACLE"} ELSE {"PREPROD", "DEV"}

\* str.upper() on the names above
Upper(s) ==
    CASE s = "aws" -> "AWS"
      [] s = "staging" -> "STAGING"
      [] OTHER -> s

Populated(name) == [url |-> Str("https://" \o name), token |-> Str("token-" \o name)]

\* What the environment may hold for one name (os.getenv gives None for an
\* unset variable): both set, the url unset, the token empty, the url empty
\* and the token unset
ConfigsOf(name) ==
    { Populated(name),
      [url |-> None, token |-> Str("token-" \o name)],
      [url |-> Str("https://" \o name), token |-> Str("")],
      [url |-> Str(""), token |-> None] }

get_workspace_config(name) ==
    IF Upper(name) \in DOMAIN WORKSPACE_CONFIG
    THEN Dict(WORKSPACE_CONFIG[Upper(name)])
    ELSE None

(***************************************************************************)
(* The requests library.  A call whose URL has no scheme (the url is None  *)
(* or empty, so the f-string starts "None/api" or "/api") raises           *)
(* MissingSchema, a RequestException, before anything is sent.  Any other  *)
(* call succeeds, fails in transport, or gets a non-2xx response, which    *)
(* raise_for_status turns into a RequestException.                         *)
(***************************************************************************)
Outcomes(url) ==
    IF Truthy(url) THEN {"ok", "transport_error", "http_error"} ELSE {"invalid_url"}

GITHUB_URL == Str("https://api.github.com")

\* One entry of `log`
Call(ws, url, method, api, path, body) ==
    [ws |-> ws, url |-> url, method |-> method, api |-> api, path |-> path, body |-> body]

\* Whether the call left the process (its URL had a scheme)
Sent(c) == Truthy(c.url)

(***************************************************************************)
(* Response bodies of the workspace API.                                   *)
(***************************************************************************)
\* get-status: a JSON object, possibly without the fields read from it
StatusBodies ==
    { Dict(<< >>),
      Dict([object_id |-> PyInt(7), object_type |-> Str("NOTEBOOK")]),
      Dict([object_id |-> PyInt(7), object_type |-> Str("DIRECTORY")]),
      Dict([object_id |-> PyInt(7), object_type |-> Str("LIBRARY")]) }

\* entries of an access_control_list: two for the same user, one for another
\* user, one for a group (no user_name)
AclEntries ==
    { [user_name |-> Str("ann@example.com"), permission_level |-> Str("CAN_RUN")],
      [user_name |-> Str("ann@example.com"), permission_level |-> Str("CAN_EDIT")],
      [user_name |-> Str("bob@example.com"), permission_level |-> Str("CAN_READ")],
      [group_name |-> Str("admins"), permission_level |-> Str("CAN_MANAGE")] }

AclLists == SeqsUpTo(AclEntries, MaxAcl)

(***************************************************************************)
(* An insertion-ordered dict as a sequence of <<key, value>>.              *)
(***************************************************************************)
Keys(d) == { d[k][1] : k \in DOMAIN d }

\* d[key] = value: an existing key keeps its place, a new one goes last
DictSet(d, key, value) ==
    IF key \in Keys(d)
    THEN [k \in DOMAIN d |-> IF d[k][1] = key THEN << key, value >> ELSE d[k]]
    ELSE Append(d, << key, value >>)

\* The loop of get_permissions converting the list to a dict
RECURSIVE PermissionsDict(_, _)
PermissionsDict(list, acc) ==
    IF list = << >> THEN acc
    ELSE LET permission == Head(list)
             user_name == Get(permission, "user_name")
             permission_level == Get(permission, "permission_level")
         IN PermissionsDict(Tail(list),
                IF Truthy(user_name) /\ Truthy(permission_level)
                THEN DictSet(acc, user_name.v, permission_level.v)
                ELSE acc)

\* The hardcoded default of sync_notebooks_and_permissions
DefaultPermissions ==
    << << "somin.sangwan@digivatelabs.com", "CAN_MANAGE" >>,
       << "samir.shinde@digivatelabs.com", "CAN_MANAGE" >> >>

notebook_name == "demon_slayer_notebook.py"
workspace_dir == "/Workspace/Users/adhyan.mishra@digivatelabs.com"

\* The permissions endpoint of an object type, None for any other type
PermissionsEndpoint(object_type) ==
    IF object_type = Str("NOTEBOOK") THEN Str("permissions/notebooks")
    ELSE IF object_type = Str("DIRECTORY") THEN Str("permissions/directories")
    ELSE None

\* The body without the entry for the cluster
GrantDataWithoutAttach(email, permission_level, cluster) ==
    [access_control_list |->
        << [user_name |-> email, permission_level |-> permission_level] >>]

\* The PATCH body grant_permissions builds
GrantData(email, permission_level, cluster) ==
    [access_control_list |->
        << [user_name |-> email, permission_level |-> permission_level] >>
        \o (IF Truthy(cluster)
            THEN << [user_name |-> email, permission_level |-> "CAN_ATTACH_TO",
                     cluster_id |-> cluster.v] >>
            ELSE << >>)]

\* The calls one grant_permissions invocation makes, given what the status
\* lookup returned (None on a failed lookup)
GrantCalls(ws, config, path, email, permission_level, cluster, object_status) ==
    << Call(ws, config.url, "GET", "workspace/get-status", path, None) >>
    \o (IF ~Truthy(object_status) THEN << >>
        ELSE LET endpoint == PermissionsEndpoint(Get(object_status.v, "object_type"))
             IN IF endpoint = None THEN << >>
                ELSE << Call(ws, config.url, "PATCH", endpoint.v,
                             Get(object_status.v, "object_id"),
                             GrantData(email, permission_level, cluster)) >>)

syncLocals == << notebook_content, source_notebook_path, target_notebook_path,
                 source_notebook_id, target_notebook_id, acl_response, permissions_call,
                 fetched_permissions, source_permissions, grants >>
transferLocals == << users, created, user_name_map, tree, failed_listings,
                     notebook_paths, directory_paths, exported >>
inputs == << prog, WORKSPACE_CONFIG, source_name, target_name, cluster_id, probe >>

\* The state when the orchestrator of script p is entered
InitOf(p) ==
    /\ prog = p
    /\ source_name \in SourceInputs(prog)
    /\ target_name \in TargetInputs(prog)
    /\ WORKSPACE_CONFIG \in
         { f \in [TableNames(prog) -> UNION {ConfigsOf(n) : n \in TableNames(prog)}] :
             /\ \A n \in TableNames(prog) : f[n] \in ConfigsOf(n)
             /\ Cardinality({ n \in TableNames(prog) : f[n] # Populated(n) }) <= MaxUnset
             /\ \A n \in TableNames(prog) :
                  n \notin {Upper(source_name), Upper(target_name)} => f[n] = Populated(n) }
    /\ cluster_id \in IF prog = "sync" THEN {Str(""), Str("cluster-1")} ELSE {None}
    /\ pc = "start"
    /\ source_config = None
    /\ target_config = None
    /\ log = << >>
    /\ notebook_content = None
    /\ source_notebook_path = None
    /\ target_notebook_path = None
    /\ source_notebook_id = None
    /\ target_notebook_id = None
    /\ acl_response = None
    /\ permissions_call = None
    /\ fetched_permissions = None
    /\ source_permissions = None
    /\ grants = << >>
    /\ users = << >>
    /\ created = << >>
    /\ user_name_map = << >>
    /\ tree = None
    /\ failed_listings = {}
    /\ notebook_paths = << >>
    /\ directory_paths = {}
    /\ exported = << >>
    /\ probe = None
    /\ i = 0

(***************************************************************************)
(* sync_notebooks_and_permissions                                          *)
(***************************************************************************)
\* Gate without the test that follows the import into the first workspace
GateWithoutSourceImportTest(value, next) ==
    IF next = "import_target" THEN next
    ELSE IF ~Truthy(value) THEN "halted" ELSE next

\* `if not value: print(...); return`: the run stops unless the value is truthy
Gate(value, next) == IF ~Truthy(value) THEN "halted" ELSE next

\* Configuration resolution
SyncResolve ==
    /\ prog = "sync" /\ pc = "start"
    /\ source_config' = get_workspace_config(source_name)
    /\ target_config' = get_workspace_config(target_name)
    /\ pc' = IF ~Truthy(source_config') \/ ~Truthy(target_config')
             THEN "halted" ELSE "fetch_github"
    /\ UNCHANGED << inputs, log, syncLocals, transferLocals, i >>

\* fetch_notebook_from_github and the test of its result
FetchFromGithub ==
    /\ prog = "sync" /\ pc = "fetch_github"
    /\ \E outcome \in Outcomes(GITHUB_URL), content \in WireContents \cup {None} :
         /\ notebook_content' =
              IF outcome = "ok" /\ Truthy(content)
              THEN Text(Utf8Decode(B64Decode(content.v)))
              ELSE None
    /\ log' = Append(log, Call("github", GITHUB_URL, "GET", "contents", notebook_name, None))
    /\ pc' = Gate(notebook_content', "import_source")
    /\ UNCHANGED << inputs, source_config, target_config, source_notebook_path,
                    target_notebook_path, source_notebook_id, target_notebook_id,
                    acl_response, permissions_call, fetched_permissions, source_permissions, grants,
                    transferLocals, i >>

\* The body import_notebook posts
ImportData(path, content) ==
    [path |-> path, format |-> "SOURCE", language |-> "PYTHON",
     content |-> B64Encode(Utf8Encode(content.v)), overwrite |-> TRUE]

\* multicloud_git.import_notebook: the call it makes
SyncImportCall(ws, config) ==
    Call(ws, config.url, "POST", "workspace/import", workspace_dir \o "/" \o notebook_name,
         ImportData(workspace_dir \o "/" \o notebook_name, notebook_content))

\* multicloud_git.import_notebook: what it returns
SyncImportResult(outcome) ==
    IF outcome = "ok" THEN Str(workspace_dir \o "/" \o notebook_name) ELSE None

ImportIntoSource ==
    /\ prog = "sync" /\ pc = "import_source"
    /\ \E outcome \in Outcomes(source_config.v.url) :
         source_notebook_path' = SyncImportResult(outcome)
    /\ log' = Append(log, SyncImportCall("source", source_config.v))
    /\ pc' = Gate(source_notebook_path', "import_target")
    /\ UNCHANGED << inputs, source_config, target_config, notebook_content,
                    target_notebook_path, source_notebook_id, target_notebook_id,
                    acl_response, permissions_call, fetched_permissions, source_permissions, grants,
                    transferLocals, i >>

ImportIntoTarget ==
    /\ prog = "sync" /\ pc = "import_target"
    /\ \E outcome \in Outcomes(target_config.v.url) :
         target_notebook_path' = SyncImportResult(outcome)
    /\ log' = Append(log, SyncImportCall("target", target_config.v))
    /\ pc' = Gate(target_notebook_path', "id_source")
    /\ UNCHANGED << inputs, source_config, target_config, notebook_content,
                    source_notebook_path, source_notebook_id, target_notebook_id,
                    acl_response, permissions_call, fetched_permissions, source_permissions, grants,
                    transferLocals, i >>

\* get_notebook_id: what it returns
NotebookIdResult(outcome, body) ==
    IF outcome = "ok" THEN Get(body.v, "object_id") ELSE None

GetSourceNotebookId ==
    /\ prog = "sync" /\ pc = "id_source"
    /\ \E outcome \in Outcomes(source_config.v.url), body \in StatusBodies :
         source_notebook_id' = NotebookIdResult(outcome, body)
    /\ log' = Append(log, Call("source", source_config.v.url, "GET",
                               "workspace/get-status", source_notebook_path.v, None))
    /\ pc' = Gate(source_notebook_id', "permissions")
    /\ UNCHANGED << inputs, source_config, target_config, notebook_content,
                    source_notebook_path, target_notebook_path, target_notebook_id,
                    acl_response, permissions_call, fetched_permissions, source_permissions, grants,
                    transferLocals, i >>

\* get_permissions: what it returns, given what the status lookup returned
\* (None on a failed lookup), the outcome of the permissions GET and the
\* access_control_list of its response
get_permissions(object_status, outcome, permissions_list) ==
    IF ~Truthy(object_status) THEN None
    ELSE IF PermissionsEndpoint(Get(object_status.v, "object_type")) = None THEN None
    ELSE IF outcome = "ok" THEN ODict(PermissionsDict(permissions_list, << >>))
    ELSE ODict(<< >>)

\* get_permissions: the calls it makes
PermissionsCalls(ws, config, path, object_status) ==
    << Call(ws, config.url, "GET", "workspace/get-status", path, None) >>
    \o (IF ~Truthy(object_status) THEN << >>
        ELSE LET endpoint == PermissionsEndpoint(Get(object_status.v, "object_type"))
             IN IF endpoint = None THEN << >>
                ELSE << Call(ws, config.url, "GET", endpoint.v,
                             Get(object_status.v, "object_id"), None) >>)

\* The fallback taken only when get_permissions returned None
ResolveOnlyNone(permissions) ==
    IF permissions = None THEN ODict(DefaultPermissions) ELSE permissions

\* The fallback of sync_notebooks_and_permissions
ResolvePermissions(permissions) ==
    IF ~Truthy(permissions) THEN ODict(DefaultPermissions) ELSE permissions

\* The permissions step returning when get_permissions gave nothing
AfterPermissionsGated(permissions) == Gate(permissions, "id_target")

\* Where the run goes after the permissions step: the `if not source_permissions`
\* block substitutes the default and has no return
AfterPermissions(permissions) == "id_target"

\* get_object_status: what it returns
ObjectStatusResult(outcome, body) == IF outcome = "ok" THEN body ELSE None

\* Fetch permissions from the first workspace and apply the fallback
GetPermissions ==
    /\ prog = "sync" /\ pc = "permissions"
    /\ \E o1 \in Outcomes(source_config.v.url), body \in StatusBodies,
          o2 \in Outcomes(source_config.v.url), permissions_list \in AclLists :
         LET object_status == ObjectStatusResult(o1, body)
             calls == PermissionsCalls("source", source_config.v,
                                       source_notebook_path.v, object_status)
         IN /\ fetched_permissions' = get_permissions(object_status, o2, permissions_list)
            /\ acl_response' = IF Len(calls) = 2 /\ o2 = "ok"
                               THEN PyList(permissions_list) ELSE None
            /\ permissions_call' = [object_status |-> object_status,
                                    outcome |-> IF Len(calls) = 2 THEN Str(o2) ELSE None]
            /\ log' = log \o calls
    /\ source_permissions' = ResolvePermissions(fetched_permissions')
    /\ pc' = AfterPermissions(fetched_permissions')
    /\ UNCHANGED << inputs, source_config, target_config, notebook_content,
                    source_notebook_path, target_notebook_path, source_notebook_id,
                    target_notebook_id, grants, transferLocals, i >>

GetTargetNotebookId ==
    /\ prog = "sync" /\ pc = "id_target"
    /\ \E outcome \in Outcomes(target_config.v.url), body \in StatusBodies :
         target_notebook_id' = NotebookIdResult(outcome, body)
    /\ log' = Append(log, Call("target", target_config.v.url, "GET",
                               "workspace/get-status", target_notebook_path.v, None))
    /\ pc' = Gate(target_notebook_id',
                 IF Len(source_permissions.v) = 0 THEN "completed" ELSE "grant_source")
    /\ i' = 1
    /\ UNCHANGED << inputs, source_config, target_config, notebook_content,
                    source_notebook_path, target_notebook_path, source_notebook_id,
                    acl_response, permissions_call, fetched_permissions, source_permissions, grants,
                    transferLocals >>

\* One grant_permissions invocation of a for loop of the orchestrator
GrantStep(ws, config, path) ==
    /\ \E o1 \in Outcomes(config.url), body \in StatusBodies :
         LET user == source_permissions.v[i][1]
             permission_level == source_permissions.v[i][2]
         IN /\ log' = log \o GrantCalls(ws, config, path, user, permission_level,
                                        cluster_id, ObjectStatusResult(o1, body))
            /\ grants' = Append(grants, [ws |-> ws, user |-> user,
                                         permission_level |-> permission_level])
    /\ UNCHANGED << inputs, source_config, target_config, notebook_content,
                    source_notebook_path, target_notebook_path, source_notebook_id,
                    target_notebook_id, acl_response, permissions_call, fetched_permissions,
                    source_permissions, transferLocals >>

\* The first loop leaving at the first grant that issued no PATCH
GrantOnSourceBreaking ==
    /\ prog = "sync" /\ pc = "grant_source"
    /\ GrantStep("source", source_config.v, source_notebook_path.v)
    /\ IF i < Len(source_permissions.v) /\ Len(log') = Len(log) + 2
       THEN i' = i + 1 /\ pc' = pc
       ELSE i' = 1 /\ pc' = "grant_target"

\* for user, permission_level in source_permissions.items(): first workspace
GrantOnSource ==
    /\ prog = "sync" /\ pc = "grant_source"
    /\ GrantStep("source", source_config.v, source_notebook_path.v)
    /\ IF i < Len(source_permissions.v)
       THEN i' = i + 1 /\ pc' = pc
       ELSE i' = 1 /\ pc' = "grant_target"

\* the same loop on the second workspace, then the final message
GrantOnTarget ==
    /\ prog = "sync" /\ pc = "grant_target"
    /\ GrantStep("target", target_config.v, target_notebook_path.v)
    /\ IF i < Len(source_permissions.v)
       THEN i' = i + 1 /\ pc' = pc
       ELSE i' = i /\ pc' = "completed"

(***************************************************************************)
(* Paths of the bulk migration: a path is its sequence of code points, so  *)
(* that sorted() orders paths as Python orders strings.                    *)
(***************************************************************************)
Slash == 47
Root == << Slash >>

Join(parent, name) == IF parent = Root THEN Root \o name ELSE parent \o << Slash >> \o name

\* Index of the last "/" of a path
LastSlash(p) == CHOOSE k \in 1..Len(p) : p[k] = Slash /\ \A j \in (k + 1)..Len(p) : p[j] # Slash

Parent(p) == IF LastSlash(p) = 1 THEN Root ELSE SubSeq(p, 1, LastSlash(p) - 1)

\* The directories above p, the root left out
RECURSIVE Ancestors(_)
Ancestors(p) == IF Parent(p) = Root THEN {} ELSE {Parent(p)} \cup Ancestors(Parent(p))

\* a < b for Python strings: by code point, a proper prefix first
RECURSIVE LexLess(_, _)
LexLess(a, b) ==
    IF b = << >> THEN FALSE
    ELSE IF a = << >> THEN TRUE
    ELSE IF Head(a) # Head(b) THEN Head(a) < Head(b)
    ELSE LexLess(Tail(a), Tail(b))

\* sorted(S)
RECURSIVE Sorted(_)
Sorted(S) ==
    IF S = {} THEN << >>
    ELSE LET m == CHOOSE x \in S : \A y \in S \ {x} : LexLess(x, y)
         IN << m >> \o Sorted(S \ {m})

Reverse(s) == [k \in 1..Len(s) |-> s[Len(s) + 1 - k]]

(***************************************************************************)
(* The source workspace: its tree and its users.                           *)
(***************************************************************************)
\* Directory names below the root: "a" and "a-" ("-" sorts before "/")
TopNames == { << 97 >>, << 97, 45 >> }
\* Directory names further down: "a"
SubNames == { << 97 >> }
\* The notebook name: "n"
NotebookNames == { << 110 >> }

RECURSIVE DirsAtDepth(_)
DirsAtDepth(d) ==
    IF d = 1 THEN { Join(Root, n) : n \in TopNames }
    ELSE { Join(p, n) : p \in DirsAtDepth(d - 1), n \in SubNames }

DirUniverse == UNION { DirsAtDepth(d) : d \in 1..MaxDepth }

\* A tree: its directories (each with its parent), its notebooks (each in the
\* root or in a directory of the tree) and the order the server lists children in
AllTrees ==
    { [dirs |-> D, notebooks |-> N, order |-> o] :
        D \in { X \in SUBSET DirUniverse :
                  Cardinality(X) <= MaxDirs /\ \A p \in X : Ancestors(p) \subseteq X },
        N \in SUBSET { Join(p, n) : p \in DirUniverse \cup {Root}, n \in NotebookNames },
        o \in {"ascending", "descending"} }

WellFormed(t) ==
    /\ Cardinality(t.notebooks) <= MaxNotebooks
    /\ \A n \in t.notebooks : Parent(n) \in t.dirs \cup {Root}

Trees == { t \in AllTrees : WellFormed(t) }

\* The "objects" of the listing response for a directory
Objects(t, path) ==
    LET children == { c \in t.dirs \cup t.notebooks : Parent(c) = path }
        listed == IF t.order = "ascending" THEN Sorted(children) ELSE Reverse(Sorted(children))
    IN [k \in 1..Len(listed) |->
           [path |-> listed[k],
            object_type |-> IF listed[k] \in t.dirs THEN "DIRECTORY" ELSE "NOTEBOOK"]]

ListCall(config, path) == Call("source", config.url, "GET", "workspace/list", path, None)

\* list_notebooks: the pair it returns and the calls it makes, on tree t when
\* the listing calls of the directories in F fail
RECURSIVE list_notebooks(_, _, _, _)
RECURSIVE ListLoop(_, _, _, _, _)
\* A walk in which a failed listing below a directory fails that directory too
list_notebooks_propagating(config, t, F, path) ==
    IF path \in F \/ \E f \in F : path = Root \/ path \in Ancestors(f)
    THEN [notebooks |-> << >>, directories |-> {}, calls |-> << ListCall(config, path) >>]
    ELSE ListLoop(config, t, F, Objects(t, path),
                  [notebooks |-> << >>, directories |-> {},
                   calls |-> << ListCall(config, path) >>])

list_notebooks(config, t, F, path) ==
    IF path \in F
    THEN [notebooks |-> << >>, directories |-> {}, calls |-> << ListCall(config, path) >>]
    ELSE ListLoop(config, t, F, Objects(t, path),
                  [notebooks |-> << >>, directories |-> {},
                   calls |-> << ListCall(config, path) >>])

\* the for loop of list_notebooks over the objects of one response
ListLoop(config, t, F, objects, acc) ==
    IF objects = << >> THEN acc
    ELSE LET obj == Head(objects) IN
         IF obj.object_type = "NOTEBOOK"
         THEN ListLoop(config, t, F, Tail(objects),
                       [acc EXCEPT !.notebooks = Append(@, obj.path)])
         ELSE IF obj.object_type = "DIRECTORY"
         THEN LET sub == list_notebooks(config, t, F, obj.path)
              IN ListLoop(config, t, F, Tail(objects),
                          [notebooks |-> acc.notebooks \o sub.notebooks,
                           directories |-> acc.directories \cup {obj.path} \cup sub.directories,
                           calls |-> acc.calls \o sub.calls])
         ELSE ListLoop(config, t, F, Tail(objects), acc)

\* User records of the SCIM listing: one with the server-assigned id, one without
UserRecords ==
    { [id |-> "101", userName |-> "ann@example.com", active |-> TRUE],
      [userName |-> "bob@example.com", active |-> FALSE] }

\* Listings of at most MaxUsers users, no user twice
UserLists ==
    { l \in SeqsUpTo(UserRecords, MaxUsers) :
        \A j, k \in DOMAIN l : j # k => l[j] # l[k] }

\* user.pop(key, None)
Pop(user, key) == [k \in DOMAIN user \ {key} |-> user[k]]

(***************************************************************************)
(* transfer_users_and_notebooks                                            *)
(***************************************************************************)
\* Configuration resolution
TransferResolve ==
    /\ prog = "transfer" /\ pc = "start"
    /\ source_config' = get_workspace_config(source_name)
    /\ target_config' = get_workspace_config(target_name)
    /\ pc' = IF ~Truthy(source_config') THEN "halted"
             ELSE IF ~Truthy(target_config') THEN "halted"
             ELSE "get_users"
    /\ UNCHANGED << inputs, log, syncLocals, transferLocals, i >>

\* get_users: what it returns
get_users(outcome, resources) == IF outcome = "ok" THEN resources ELSE << >>

GetUsers ==
    /\ prog = "transfer" /\ pc = "get_users"
    /\ \E outcome \in Outcomes(source_config.v.url), resources \in UserLists :
         users' = get_users(outcome, resources)
    /\ log' = Append(log, Call("source", source_config.v.url, "GET", "scim/v2/Users", None, None))
    /\ pc' = IF Len(users') = 0 THEN "list" ELSE "create_users"
    /\ i' = 1
    /\ UNCHANGED << inputs, source_config, target_config, syncLocals, created,
                    user_name_map, tree, failed_listings, notebook_paths,
                    directory_paths, exported >>

\* The listed record handed on as it is
UserPayloadUnstripped(user) == user

\* The payload the loop hands to create_user for a listed user
UserPayload(user) == Pop(user, "id")

\* One iteration of `for user in users`
CreateUser ==
    /\ prog = "transfer" /\ pc = "create_users"
    /\ LET user == UserPayload(users[i]) IN
         /\ log' = Append(log, Call("target", target_config.v.url, "POST",
                                    "scim/v2/Users", None, user))
         /\ created' = Append(created, user)
         /\ \E outcome \in Outcomes(target_config.v.url) :
              user_name_map' = IF outcome = "ok"
                               THEN DictSet(user_name_map, user.userName, user.userName)
                               ELSE user_name_map
    /\ IF i < Len(users) THEN i' = i + 1 /\ pc' = pc ELSE i' = 1 /\ pc' = "list"
    /\ UNCHANGED << inputs, source_config, target_config, syncLocals, users, tree,
                    failed_listings, notebook_paths, directory_paths, exported >>

\* Where the orchestrator goes once the loop it is in has nothing left
AfterListing(directories, notebooks) ==
    IF directories # {} THEN "mkdirs"
    ELSE IF notebooks # << >> THEN "notebooks"
    ELSE "completed"

\* The listing calls that can fail on tree t
ListedPaths(t) == t.dirs \cup {Root}

\* The recursive walk of the source tree
ListNotebooks ==
    /\ prog = "transfer" /\ pc = "list"
    /\ \E t \in Trees : \E F \in SUBSET ListedPaths(t) :
         /\ IF Truthy(source_config.v.url)
            THEN Cardinality(F) <= MaxFailures
            ELSE F = ListedPaths(t)
         /\ LET result == list_notebooks(source_config.v, t, F, Root) IN
              /\ tree' = t
              /\ failed_listings' = F
              /\ notebook_paths' = result.notebooks
              /\ directory_paths' = result.directories
              /\ log' = log \o result.calls
              /\ pc' = AfterListing(result.directories, result.notebooks)
    /\ i' = 1
    /\ UNCHANGED << inputs, source_config, target_config, syncLocals, users, created,
                    user_name_map, exported >>

\* The directories in descending order
DirectoryOrderDescending(directories) == Reverse(Sorted(directories))

\* The order the directory loop visits the discovered directories in
DirectoryOrder(directories) == Sorted(directories)

\* One iteration of `for directory in sorted(directory_paths)`
CreateDirectory ==
    /\ prog = "transfer" /\ pc = "mkdirs"
    /\ LET directory == DirectoryOrder(directory_paths)[i] IN
         log' = Append(log, Call("target", target_config.v.url, "POST", "workspace/mkdirs",
                                 directory, [path |-> directory]))
    /\ IF i < Cardinality(directory_paths)
       THEN i' = i + 1 /\ pc' = pc
       ELSE i' = 1 /\ pc' = AfterListing({}, notebook_paths)
    /\ UNCHANGED << inputs, source_config, target_config, syncLocals, transferLocals >>

\* export_notebook: what it returns
export_notebook(outcome, content) ==
    IF outcome = "ok" THEN Text(Utf8Decode(B64Decode(content.v))) ELSE None

\* The test the notebook loop applies to the export before importing
ExportUsable(content) == Truthy(content)

\* The notebook loop returning at the first skipped notebook
NotebookLoopReturning(skipped, more) ==
    IF skipped THEN "halted" ELSE IF more THEN "notebooks" ELSE "completed"

\* Where the notebook loop goes after an iteration: `continue` after a skipped
\* notebook and the end of the body after an import both reach the next path
NotebookLoopNext(skipped, more) == IF more THEN "notebooks" ELSE "completed"

\* One iteration of `for notebook_path in notebook_paths`
ProcessNotebook ==
    /\ prog = "transfer" /\ pc = "notebooks"
    /\ \E o1 \in Outcomes(source_config.v.url), wire \in WireContents,
          o2 \in Outcomes(target_config.v.url) :
         LET notebook_path == notebook_paths[i]
             content == export_notebook(o1, wire)
             export == Call("source", source_config.v.url, "GET", "workspace/export",
                            notebook_path, None)
         IN IF ~ExportUsable(content)
            THEN /\ log' = Append(log, export)
                 /\ exported' = Append(exported, [path |-> notebook_path, content |-> content,
                                                  imported |-> "skipped"])
            ELSE /\ log' = log \o << export,
                                     Call("target", target_config.v.url, "POST",
                                          "workspace/import", notebook_path,
                                          ImportData(notebook_path, content)) >>
                 /\ exported' = Append(exported, [path |-> notebook_path, content |-> content,
                                                  imported |-> IF o2 = "ok" THEN "ok" ELSE "failed"])
    /\ pc' = NotebookLoopNext(exported'[i].imported = "skipped", i < Len(notebook_paths))
    /\ i' = IF i < Len(notebook_paths) THEN i + 1 ELSE i
    /\ UNCHANGED << inputs, source_config, target_config, syncLocals, users, created,
                    user_name_map, tree, failed_listings, notebook_paths, directory_paths >>

TransferNext ==
    \/ TransferResolve
    \/ GetUsers
    \/ CreateUser
    \/ ListNotebooks
    \/ CreateDirectory
    \/ ProcessNotebook

SyncNext ==
    \/ SyncResolve
    \/ FetchFromGithub
    \/ ImportIntoSource
    \/ ImportIntoTarget
    \/ GetSourceNotebookId
    \/ GetPermissions
    \/ GetTargetNotebookId
    \/ GrantOnSource
    \/ GrantOnTarget

SyncInit == InitOf("sync")

SyncSpec == SyncInit /\ [][SyncNext]_vars

\* The scripts are sequential programs that run until they return: a step that
\* can be taken is taken
SyncFairSpec == SyncSpec /\ WF_vars(SyncNext)

TransferInit == InitOf("transfer")

TransferSpec == TransferInit /\ [][TransferNext]_vars

TransferFairSpec == TransferSpec /\ WF_vars(TransferNext)

(***************************************************************************)
(* grant_permissions on its own: one call with arguments drawn from small  *)
(* sets, `probe` holding the arguments and then the result.                *)
(***************************************************************************)
\* grant_permissions: what it returns
GrantResult(object_status, outcome) ==
    /\ Truthy(object_status)
    /\ PermissionsEndpoint(Get(object_status.v, "object_type")) # None
    /\ outcome = "ok"

GrantInit ==
    /\ prog = "grant_permissions"
    /\ pc = "call"
    /\ probe \in
         [ config : ConfigsOf("AWS"),
           path : { workspace_dir \o "/" \o notebook_name },
           email : { "ann@example.com", "bob@example.com" },
           permission_level : { "CAN_RUN", "CAN_MANAGE" },
           cluster_id : { None, Str(""), Str("cluster-1") },
           object_status : { None },
           result : { FALSE } ]
    /\ WORKSPACE_CONFIG = [n \in TableNames("sync") |-> Populated(n)]
    /\ source_name = "aws"
    /\ target_name = "AZURE"
    /\ cluster_id = None
    /\ source_config = None
    /\ target_config = None
    /\ log = << >>
    /\ notebook_content = None
    /\ source_notebook_path = None
    /\ target_notebook_path = None
    /\ source_notebook_id = None
    /\ target_notebook_id = None
    /\ acl_response = None
    /\ permissions_call = None
    /\ fetched_permissions = None
    /\ source_permissions = None
    /\ grants = << >>
    /\ users = << >>
    /\ created = << >>
    /\ user_name_map = << >>
    /\ tree = None
    /\ failed_listings = {}
    /\ notebook_paths = << >>
    /\ directory_paths = {}
    /\ exported = << >>
    /\ i = 0

GrantPermissionsCall ==
    /\ prog = "grant_permissions" /\ pc = "call"
    /\ \E o1 \in Outcomes(probe.config.url), body \in StatusBodies,
          o2 \in Outcomes(probe.config.url) :
         LET object_status == ObjectStatusResult(o1, body) IN
         /\ log' = GrantCalls("source", probe.config, probe.path, probe.email,
                              probe.permission_level, probe.cluster_id, object_status)
         /\ probe' = [probe EXCEPT !.object_status = object_status,
                                   !.result = GrantResult(object_status, o2)]
    /\ pc' = "returned"
    /\ UNCHANGED << prog, WORKSPACE_CONFIG, source_name, target_name, cluster_id,
                    source_config, target_config, syncLocals, transferLocals, i >>

GrantNext == GrantPermissionsCall

GrantSpec == GrantInit /\ [][GrantNext]_vars

(***************************************************************************)
(* Properties.                                                             *)
(***************************************************************************)
\* An environment as the specification calls it unconfigured: its name is not
\* in the table, or its url or token is absent or empty
Unconfigured(name) ==
    LET config == get_workspace_config(name)
    IN \/ config = None
       \/ ~Truthy(config.v.url)
       \/ ~Truthy(config.v.token)

IsMkdir(c) == c.api = "workspace/mkdirs"
IsImport(c) == c.api = "workspace/import"
IsExport(c) == c.api = "workspace/export"
IsCreateUser(c) == c.api = "scim/v2/Users" /\ c.method = "POST"
IsPatch(c) == c.method = "PATCH"

\* C1: with the source or the target unconfigured (name not in the table, or
\* url or token absent or empty) no HTTP call is ever sent; with both
\* configured the run does not stop at the configuration step (it can only
\* stop later, after its first call).
C1_UnconfiguredHaltsBeforeAnyCall ==
    /\ (Unconfigured(source_name) \/ Unconfigured(target_name))
         => \A k \in DOMAIN log : ~Sent(log[k])
    /\ (~Unconfigured(source_name) /\ ~Unconfigured(target_name) /\ pc = "halted")
         => log # << >>

\* C2: in the bulk migration every create-directory call precedes every
\* notebook import, the create-directory calls are in ascending path order,
\* each directory is created after each of its discovered ancestors, and all
\* discovered directories have been created when the notebook loop starts.
C2_DirectoriesSortedBeforeImports ==
    prog = "transfer" =>
        /\ \A j, k \in DOMAIN log :
             (j < k /\ IsMkdir(log[k])) => ~IsImport(log[j])
        /\ \A j, k \in DOMAIN log :
             (j < k /\ IsMkdir(log[j]) /\ IsMkdir(log[k])) => LexLess(log[j].path, log[k].path)
        /\ \A k \in DOMAIN log :
             IsMkdir(log[k]) =>
                 \A a \in Ancestors(log[k].path) \cap directory_paths :
                     \E j \in 1..(k - 1) : IsMkdir(log[j]) /\ log[j].path = a
        /\ pc \in {"notebooks", "completed"} =>
             { log[k].path : k \in { j \in DOMAIN log : IsMkdir(log[j]) } } = directory_paths

\* C2 witness: a finished migration of a tree listed in descending order that
\* holds a directory two levels below another and a sibling sorting between
\* them, with a notebook imported after the directories.
C2_Witness ==
    /\ prog = "transfer" /\ pc = "completed"
    /\ tree.order = "descending"
    /\ Cardinality(directory_paths) = 3
    /\ \E d \in directory_paths : Cardinality(Ancestors(d)) = 1
    /\ \E d \in directory_paths : Len(d) = 3
    /\ \E k \in DOMAIN log : IsImport(log[k])

\* C3: a notebook whose export failed gets no import; a notebook whose export
\* succeeded, whatever its content (the empty text included), gets exactly one
\* import, at its own path, carrying the exported text; and every discovered
\* notebook has been processed when the run completes.
C3_EveryExportedNotebookImported ==
    prog = "transfer" =>
        /\ \A k \in DOMAIN exported :
             LET e == exported[k]
                 imports == { j \in DOMAIN log : IsImport(log[j]) /\ log[j].path = e.path }
             IN IF e.content = None
                THEN imports = {}
                ELSE /\ Cardinality(imports) = 1
                     /\ \A j \in imports :
                          /\ log[j].body.path = e.path
                          /\ Utf8Decode(B64Decode(log[j].body.content)) = e.content.v
        /\ pc = "completed" =>
             /\ Len(exported) = Len(notebook_paths)
             /\ \A k \in DOMAIN exported : exported[k].path = notebook_paths[k]

IsGithub(c) == c.ws = "github"
IsStatus(c) == c.api = "workspace/get-status"
OnSource(c) == c.ws = "source"
OnTarget(c) == c.ws = "target"

\* C4: the synchronisation issues its calls in the fixed order source host,
\* import 1, import 2, identifier lookup 1, and stops at the first gated step
\* whose result is a failure: no import into the second workspace without a
\* successful import into the first, and no PATCH unless the fetch, both
\* imports and both identifier lookups succeeded.
C4_StepsGatedInOrder ==
    prog = "sync" =>
        /\ Len(log) >= 1 => IsGithub(log[1])
        /\ Len(log) >= 2 => IsImport(log[2]) /\ OnSource(log[2])
        /\ Len(log) >= 3 => IsImport(log[3]) /\ OnTarget(log[3])
        /\ Len(log) >= 4 => IsStatus(log[4]) /\ OnSource(log[4])
        /\ ~Truthy(notebook_content) => Len(log) <= 1
        /\ ~Truthy(source_notebook_path) => Len(log) <= 2
        /\ ~Truthy(target_notebook_path) => Len(log) <= 3
        /\ ~Truthy(source_notebook_id) => Len(log) <= 4
        /\ \A k \in DOMAIN log :
             (IsImport(log[k]) /\ OnTarget(log[k])) =>
                 /\ Truthy(source_notebook_path)
                 /\ \E j \in 1..(k - 1) : IsImport(log[j]) /\ OnSource(log[j])
        /\ \A k \in DOMAIN log :
             IsPatch(log[k]) =>
                 /\ Truthy(notebook_content)
                 /\ Truthy(source_notebook_path) /\ Truthy(target_notebook_path)
                 /\ Truthy(source_notebook_id) /\ Truthy(target_notebook_id)
                 /\ \E j \in 5..(k - 1) : IsStatus(log[j]) /\ OnTarget(log[j])
        /\ (pc = "halted" /\ Len(log) >= 5) =>
             /\ ~Truthy(target_notebook_id)
             /\ IsStatus(log[Len(log)]) /\ OnTarget(log[Len(log)])

\* C4 witness: a run that imported into both workspaces, resolved the first
\* identifier, fetched permissions, and stopped at the failed lookup of the
\* second identifier without any PATCH.
C4_Witness ==
    /\ prog = "sync" /\ pc = "halted"
    /\ Truthy(source_notebook_id) /\ ~Truthy(target_notebook_id)
    /\ Len(log) = 7
    /\ \A k \in DOMAIN log : ~IsPatch(log[k])

\* The (principal, level) pairs grant_permissions was invoked with on a workspace
GrantedOn(ws) ==
    { << grants[k].user, grants[k].permission_level >> :
        k \in { j \in DOMAIN grants : grants[j].ws = ws } }

Pairs(d) == { << d[k][1], d[k][2] >> : k \in DOMAIN d }

\* Whether an entry of an access_control_list names a user and a level
UserEntry(e) == Truthy(Get(e, "user_name")) /\ Truthy(Get(e, "permission_level"))

\* The user-to-level pairs of a list, the last entry of a user winning
LastWins(list) ==
    { << list[k].user_name.v, list[k].permission_level.v >> :
        k \in { j \in DOMAIN list :
                  /\ UserEntry(list[j])
                  /\ \A m \in (j + 1)..Len(list) :
                       UserEntry(list[m]) => list[m].user_name # list[j].user_name } }

\* C5 as stated: with an empty permission list both workspaces are granted
\* exactly the default pair set; with a non-empty list both are granted exactly
\* the fetched mapping and the default is not used.
C5_ListDecidesFallback ==
    (prog = "sync" /\ pc = "completed" /\ acl_response # None) =>
        IF Len(acl_response.v) = 0
        THEN /\ GrantedOn("source") = Pairs(DefaultPermissions)
             /\ GrantedOn("target") = Pairs(DefaultPermissions)
        ELSE /\ GrantedOn("source") = Pairs(fetched_permissions.v)
             /\ GrantedOn("target") = Pairs(fetched_permissions.v)
             /\ source_permissions.v # DefaultPermissions

\* C5 amended: the mapping decides, not the list.  When no entry of the list
\* names both a user and a level (the empty list included) both workspaces are
\* granted exactly the default pair set; otherwise both are granted exactly
\* the user-to-level mapping of the list, the last entry of a user winning.
C5_MappingDecidesFallback ==
    (prog = "sync" /\ pc = "completed" /\ acl_response # None) =>
        IF LastWins(acl_response.v) = {}
        THEN /\ GrantedOn("source") = Pairs(DefaultPermissions)
             /\ GrantedOn("target") = Pairs(DefaultPermissions)
        ELSE /\ GrantedOn("source") = LastWins(acl_response.v)
             /\ GrantedOn("target") = LastWins(acl_response.v)

\* C5 witness: a completed run whose permission list was not empty but named
\* no user, so that the default was granted on both workspaces.
C5_Witness ==
    /\ prog = "sync" /\ pc = "completed" /\ acl_response # None
    /\ Len(acl_response.v) > 0
    /\ LastWins(acl_response.v) = {}
    /\ GrantedOn("source") = Pairs(DefaultPermissions)
    /\ GrantedOn("target") = Pairs(DefaultPermissions)

\* The grants the two loops make, in order: every principal of the resolved
\* mapping on the first workspace, then every principal on the second
ExpectedGrants ==
    LET n == Len(source_permissions.v)
    IN [k \in 1..(2 * n) |->
           LET e == source_permissions.v[IF k <= n THEN k ELSE k - n]
           IN [ws |-> IF k <= n THEN "source" ELSE "target",
               user |-> e[1], permission_level |-> e[2]]]

IsPrefix(a, b) == Len(a) <= Len(b) /\ \A k \in DOMAIN a : a[k] = b[k]

\* Position in `log` of the lookup of the second identifier: the grants follow it
GrantPhaseStart == CHOOSE k \in DOMAIN log : IsStatus(log[k]) /\ OnTarget(log[k])
                        /\ \A j \in 1..(k - 1) : ~(IsStatus(log[j]) /\ OnTarget(log[j]))

GrantOrder ==
    (prog = "sync" /\ pc \in {"grant_source", "grant_target", "completed"}) =>
        /\ IsPrefix(grants, ExpectedGrants)
        /\ pc = "grant_source" => Len(grants) < Len(source_permissions.v)
        /\ pc = "grant_target" => /\ Len(grants) >= Len(source_permissions.v)
                                  /\ Len(grants) < 2 * Len(source_permissions.v)
        /\ pc = "completed" => grants = ExpectedGrants
        /\ \A j, k \in DOMAIN grants :
             (grants[j].ws = "source" /\ grants[k].ws = "target") => j < k

\* C6: from the grant step on, grant_permissions is invoked for every principal
\* of the resolved mapping on the first workspace and then for every principal
\* on the second, in order, whether or not earlier grants issued a PATCH, and
\* the run reaches the final message.
C6_EveryGrantAttempted ==
    /\ [](GrantOrder)
    /\ (prog = "sync" /\ pc = "grant_source") ~> (pc = "completed")

\* C6 witness: a completed run in which the first grant on the first workspace
\* issued no PATCH (its lookup is followed at once by the next grant's lookup)
\* and later grants on both workspaces did.
C6_Witness ==
    /\ prog = "sync" /\ pc = "completed"
    /\ Len(grants) = 4
    /\ IsStatus(log[GrantPhaseStart + 1]) /\ IsStatus(log[GrantPhaseStart + 2])
    /\ \E k \in DOMAIN log : IsPatch(log[k]) /\ OnSource(log[k])
    /\ \E k \in DOMAIN log : IsPatch(log[k]) /\ OnTarget(log[k])

\* C7: the create-user requests sent to the target are, in listing order, one
\* per listed user, each carrying the listed record without its "id" field and
\* with every other field unchanged; after the user loop every listed user has
\* had its request, whatever the outcomes.
C7_UsersCreatedWithoutId ==
    prog = "transfer" =>
        LET posts == SelectSeq(log, IsCreateUser) IN
        /\ Len(posts) <= Len(users)
        /\ Len(posts) = Len(created)
        /\ \A k \in DOMAIN posts :
             /\ posts[k].ws = "target"
             /\ posts[k].body = created[k]
             /\ "id" \notin DOMAIN posts[k].body
             /\ DOMAIN posts[k].body = DOMAIN users[k] \ {"id"}
             /\ \A f \in DOMAIN posts[k].body : posts[k].body[f] = users[k][f]
        /\ pc \in {"list", "mkdirs", "notebooks", "completed"} => Len(posts) = Len(users)
        /\ users # << >> => pc # "halted"

\* C7 witness: a completed migration of two users, the first listed with an id
\* and failing to be created, the second created, and a notebook imported.
C7_Witness ==
    /\ prog = "transfer" /\ pc = "completed"
    /\ Len(users) = 2
    /\ "id" \in DOMAIN users[1]
    /\ users[1].userName \notin Keys(user_name_map)
    /\ users[2].userName \in Keys(user_name_map)
    /\ \E k \in DOMAIN log : IsImport(log[k])

\* C8: once both configurations resolve, the bulk migration never stops short:
\* it reaches the final message whatever the outcomes of its calls.
C8_TransferCompletes ==
    /\ [](prog = "transfer" /\ Truthy(source_config) /\ Truthy(target_config) => pc # "halted")
    /\ (prog = "transfer" /\ pc = "get_users") ~> (pc = "completed")

\* C8 witness: a completed migration in which a user creation failed, a listing
\* failed, one notebook was skipped and the import of another failed.
C8_Witness ==
    /\ prog = "transfer" /\ pc = "completed"
    /\ \E k \in DOMAIN users : users[k].userName \notin Keys(user_name_map)
    /\ failed_listings # {} /\ Root \notin failed_listings
    /\ \E k \in DOMAIN exported : exported[k].imported = "skipped" /\ exported[k].content = None
    /\ \E k \in DOMAIN exported : exported[k].imported = "failed"

\* C9: when the listing of the root succeeds, list_notebooks returns exactly
\* the directories and notebooks of the tree none of whose proper ancestors
\* failed to list, each once: a failed directory is itself returned, its
\* contents are not, and nothing else is lost.
C9_ListingContinuesPastFailures ==
    (prog = "transfer" /\ tree # None /\ Root \notin failed_listings) =>
        /\ directory_paths = { d \in tree.dirs : Ancestors(d) \cap failed_listings = {} }
        /\ { notebook_paths[k] : k \in DOMAIN notebook_paths }
             = { n \in tree.notebooks : Ancestors(n) \cap failed_listings = {} }
        /\ \A j, k \in DOMAIN notebook_paths : j # k => notebook_paths[j] # notebook_paths[k]

\* C9 witness: a walk in which a directory with contents failed to list and was
\* still returned, while a sibling directory and a notebook were returned too.
C9_Witness ==
    /\ prog = "transfer" /\ tree # None
    /\ \E f \in failed_listings :
         /\ f # Root /\ f \in directory_paths
         /\ \E c \in tree.dirs \cup tree.notebooks : Parent(c) = f
         /\ \E d \in directory_paths : d # f /\ Parent(d) = Parent(f)
    /\ notebook_paths # << >>

\* C10: one grant_permissions call looks the object up first and issues at
\* most one PATCH: none, returning False, when the lookup fails or the type is
\* neither NOTEBOOK nor DIRECTORY; otherwise one, right after the lookup, to
\* the endpoint of the type and the object's id, whose access_control_list is
\* the single entry (principal, level), followed by one CAN_ATTACH_TO entry for
\* the same principal and the cluster exactly when a cluster id is supplied.
C10_GrantIssuesOnePatch ==
    (prog = "grant_permissions" /\ pc = "returned") =>
        LET status == probe.object_status
            object_type == IF status = None THEN None ELSE Get(status.v, "object_type")
            patches == SelectSeq(log, IsPatch)
        IN
        /\ Len(log) >= 1 /\ IsStatus(log[1]) /\ log[1].path = probe.path
        /\ Len(patches) <= 1
        /\ Len(log) = 1 + Len(patches)
        /\ object_type \notin { Str("NOTEBOOK"), Str("DIRECTORY") } =>
             patches = << >> /\ probe.result = FALSE
        /\ object_type = Str("NOTEBOOK") =>
             Len(patches) = 1 /\ patches[1].api = "permissions/notebooks"
        /\ object_type = Str("DIRECTORY") =>
             Len(patches) = 1 /\ patches[1].api = "permissions/directories"
        /\ \A k \in DOMAIN patches :
             LET acl == patches[k].body.access_control_list IN
             /\ patches[k].path = Get(status.v, "object_id")
             /\ Len(acl) = IF probe.cluster_id \in { None, Str("") } THEN 1 ELSE 2
             /\ acl[1] = [user_name |-> probe.email,
                          permission_level |-> probe.permission_level]
             /\ Len(acl) = 2 =>
                  acl[2] = [user_name |-> probe.email, permission_level |-> "CAN_ATTACH_TO",
                            cluster_id |-> probe.cluster_id.v]

\* C10 witness: a call with a cluster id on a directory, which issued one PATCH
\* of two entries to the directories endpoint.
C10_Witness ==
    /\ prog = "grant_permissions" /\ pc = "returned"
    /\ probe.cluster_id = Str("cluster-1")
    /\ Len(log) = 2 /\ IsPatch(log[2])
    /\ log[2].api = "permissions/directories"
    /\ Len(log[2].body.access_control_list) = 2
    /\ probe.result = TRUE

\* The three ways get_permissions fails on the first workspace
StatusLookupFailed == ~Truthy(permissions_call.object_status)

UnsupportedObjectType ==
    /\ Truthy(permissions_call.object_status)
    /\ Get(permissions_call.object_status.v, "object_type")
          \notin { Str("NOTEBOOK"), Str("DIRECTORY") }

PermissionsGetFailed ==
    /\ permissions_call.outcome # None
    /\ permissions_call.outcome # Str("ok")

PermissionsFetchFailed ==
    /\ prog = "sync" /\ permissions_call # None
    /\ StatusLookupFailed \/ UnsupportedObjectType \/ PermissionsGetFailed

\* The grant_permissions invocations of a run that applies the default set
DefaultGrants ==
    << [ws |-> "source", user |-> "somin.sangwan@digivatelabs.com",
        permission_level |-> "CAN_MANAGE"],
       [ws |-> "source", user |-> "samir.shinde@digivatelabs.com",
        permission_level |-> "CAN_MANAGE"],
       [ws |-> "target", user |-> "somin.sangwan@digivatelabs.com",
        permission_level |-> "CAN_MANAGE"],
       [ws |-> "target", user |-> "samir.shinde@digivatelabs.com",
        permission_level |-> "CAN_MANAGE"] >>

\* What a failed fetch leaves behind: a falsy result, the default as the
\* resolved mapping, and a run that goes on to the lookup of the second
\* identifier and stops only if that lookup gives nothing
FetchFailureState ==
    PermissionsFetchFailed =>
        /\ ~Truthy(fetched_permissions)
        /\ source_permissions = ODict(DefaultPermissions)
        /\ pc \in {"id_target", "grant_source", "grant_target", "completed", "halted"}
        /\ pc = "halted" => /\ ~Truthy(target_notebook_id)
                            /\ IsStatus(log[Len(log)]) /\ OnTarget(log[Len(log)])
        /\ pc = "completed" => grants = DefaultGrants

\* What an empty access_control_list leaves behind
EmptyListState ==
    (prog = "sync" /\ acl_response = PyList(<< >>)) =>
        /\ ~Truthy(fetched_permissions)
        /\ source_permissions = ODict(DefaultPermissions)

\* C11: a failed fetch of the first workspace's permissions (status lookup
\* failed, object type unsupported, or the permissions GET ended in a transport
\* or HTTP error) never stops the run and resolves to the same mapping as an
\* empty permission list, the two-principal CAN_MANAGE default; once the
\* second workspace's identifier has resolved, grant_permissions is invoked
\* for both default principals on the first workspace and then on the second,
\* and the run completes.
C11_FetchFailureGrantsDefault ==
    /\ [](FetchFailureState /\ EmptyListState)
    /\ (PermissionsFetchFailed /\ Truthy(target_notebook_id))
          ~> (pc = "completed" /\ grants = DefaultGrants)

\* C11 witness: a completed run in which the object of the first workspace had
\* an unsupported type, no permissions GET was issued, and the default was
\* applied on both workspaces.
C11_Witness ==
    /\ prog = "sync" /\ pc = "completed"
    /\ permissions_call # None /\ UnsupportedObjectType
    /\ permissions_call.outcome = None
    /\ fetched_permissions = None
    /\ grants = DefaultGrants

====
